---- MODULE Spec2Model ----
(***************************************************************************)
(* ohmydb: a file-backed JSON document store with a deferred, chainable    *)
(* query builder (src/src/json_db.rs, src/src/utils.rs, src/src/types.rs). *)
(*                                                                         *)
(* Modelling decisions                                                     *)
(*  - A serde_json Value is a tagged record (Str, Num, Obj); a document is *)
(*    any such value.                                                      *)
(*  - HashSet<Value> is a set, HashMap<String, HashSet<Value>> a function  *)
(*    from the table names it holds to sets.  Iteration order of a HashSet *)
(*    is unspecified, so every place where the order decides the outcome   *)
(*    (find / retain / filter closures that can panic) yields the set of   *)
(*    all outcomes some order produces.                                    *)
(*  - The file holds text; it is modelled by what the text denotes: empty, *)
(*    not-a-table-map, or a map from table name to an ARRAY of documents   *)
(*    (a bag: an externally written file may repeat a document).           *)
(*  - `unwrap()` on None/Err panics.  A panic unwinds out of `run`; the    *)
(*    handle keeps whatever state it had at that point, outcome "Panic".   *)
(*  - Arc<T> shared by a cloned handle is modelled by the flags shareV and *)
(*    shareR (the two handles point at the same allocation); Arc::make_mut *)
(*    privatises the allocation of the calling handle.                     *)
(*  - File I/O itself never fails (no disk-full, no removed file); `save`  *)
(*    is one step in every specification but SpecRace, where the           *)
(*    truncating open and the write are two steps that the saves of two    *)
(*    handles can interleave.                                              *)
(*  - The field `tables` of JsonDB is written but never read and is left   *)
(*    out.                                                                 *)
(***************************************************************************)
EXTENDS Integers, Sequences, FiniteSets, Bags, TLC

(***************************************************************************)
(* Bounds                                                                  *)
(***************************************************************************)
MaxQueue == 3

MaxDocs == 2

\* builder calls in one chain of the chain specification
MaxChain == 5

(***************************************************************************)
(* serde_json::Value                                                       *)
(***************************************************************************)
Str(s) == [s |-> s, type |-> "String"]

Num(n) == [type |-> "Number", n |-> n]

Obj(f) == [type |-> "Object", fields |-> f]

Doc1Jane == Obj([id |-> Str("1"), name |-> Str("Jane")])

Doc1John == Obj([id |-> Str("1"), name |-> Str("John")])

Doc2Jane == Obj([id |-> Str("2"), name |-> Str("Jane")])

DocNum7 == Obj([id |-> Num(7), name |-> Str("John")])

DocNoId == Obj([name |-> Str("Jane")])

Doc1Janet == Obj([id |-> Str("1"), name |-> Str("Janet")])

\* documents a file can hold when a handle is opened on it
FileDocs == {Doc1Jane, Doc1John, Doc2Jane, DocNum7, DocNoId}

\* documents the file holds in the table the calls do not name
OtherDocs == {Doc2Jane}

\* documents the caller passes to insert / insert_or / update
ArgDocs == {Doc1Jane, Doc1John, DocNum7, DocNoId}

TableNames == {"users", "todos"}

IdPath == <<"id">>

NamePath == <<"name">>

\* String::new().split('.') yields the single segment ""
EmptyPath == <<"">>

ArgPaths == {IdPath, NamePath}

ArgStrings == {"Jane"}

\* the table the builder calls name
ArgTables == {"users"}

(***************************************************************************)
(* utils.rs: get_nested_value                                              *)
(***************************************************************************)
\* key_chain.split('.') on a path given as its tokens, a key or "." each:
\* one part per separator and one more, a part without a key being ""
RECURSIVE SplitOnDot(_)
SplitOnDot(tokens) ==
    IF tokens = <<>> THEN <<"">>
    ELSE IF Head(tokens) = "." THEN <<"">> \o SplitOnDot(Tail(tokens))
    ELSE IF Tail(tokens) = <<>> THEN <<Head(tokens)>>
    ELSE <<Head(tokens)>> \o Tail(SplitOnDot(Tail(tokens)))

RECURSIVE GetNestedValueLenient(_, _)
GetNestedValueLenient(data, key_chain) ==
    IF key_chain = <<>>
    THEN [ok |-> TRUE, v |-> data]
    ELSE IF data.type = "Object" /\ Head(key_chain) \in DOMAIN data.fields
         THEN GetNestedValueLenient(data.fields[Head(key_chain)],
                                    Tail(key_chain))
         ELSE [ok |-> FALSE, err |-> "PathNotFound"]

\* the loop over the parts of the split path
RECURSIVE GetNestedValue(_, _)
GetNestedValue(data, key_chain) ==
    IF key_chain = <<>>
    THEN [ok |-> TRUE, v |-> data]
    ELSE IF data.type = "Object"
         THEN IF Head(key_chain) \in DOMAIN data.fields
              THEN GetNestedValue(data.fields[Head(key_chain)], Tail(key_chain))
              ELSE [ok |-> FALSE, err |-> "PathNotFound"]
         ELSE [ok |-> FALSE, err |-> "NotAnObject"]

\* Value::as_str / Value::as_u64 : Some(x) is <<x>>, None is <<>>
AsStr(value) == IF value.type = "String" THEN <<value.s>> ELSE <<>>

AsU64(value) == IF value.type = "Number" THEN <<value.n>> ELSE <<>>

(***************************************************************************)
(* types.rs: Comparator, MethodName, Runner                                *)
(***************************************************************************)
Equals(v) == [v |-> v, cmp |-> "Equals"]

NotEquals(v) == [v |-> v, cmp |-> "NotEquals"]

LessThan(n) == [n |-> n, cmp |-> "LessThan"]

GreaterThan(n) == [n |-> n, cmp |-> "GreaterThan"]

In(vs) == [cmp |-> "In", vs |-> vs]

Between(start, end) == [cmp |-> "Between", start |-> start, end |-> end]

Create(table, item, or) == [table |-> table, item |-> item, or |-> or, m |-> "Create"]

Read(table) == [table |-> table, m |-> "Read"]

Update(table, item) == [table |-> table, item |-> item, m |-> "Update"]

Delete(table) == [table |-> table, m |-> "Delete"]

NoMethod == [m |-> "None"]

Done == [r |-> "Done"]

Method(name) == [name |-> name, r |-> "Method"]

Compare(comparator) == [r |-> "Compare", comparator |-> comparator]

Where(f) == [f |-> f, r |-> "Where"]

(***************************************************************************)
(* json_db.rs: filter_with_conmpare                                        *)
(***************************************************************************)
FilterWithCompareEqualsNegated(value, comparator) ==
    CASE comparator.cmp = "Equals" -> AsStr(value) # <<comparator.v>>
      [] comparator.cmp = "NotEquals" -> AsStr(value) # <<comparator.v>>
      [] comparator.cmp = "LessThan" ->
            AsU64(value) # <<>> /\ AsU64(value)[1] < comparator.n
      [] comparator.cmp = "GreaterThan" ->
            AsU64(value) # <<>> /\ AsU64(value)[1] > comparator.n
      [] comparator.cmp = "In" ->
            AsStr(value) # <<>> /\ AsStr(value)[1] \in comparator.vs
      [] comparator.cmp = "Between" ->
            /\ AsU64(value) # <<>>
            /\ AsU64(value)[1] >= comparator.start
            /\ AsU64(value)[1] <= comparator.end

FilterWithCompareInclusive(value, comparator) ==
    CASE comparator.cmp = "Equals" -> AsStr(value) = <<comparator.v>>
      [] comparator.cmp = "NotEquals" -> AsStr(value) # <<comparator.v>>
      [] comparator.cmp = "LessThan" ->
            AsU64(value) # <<>> /\ AsU64(value)[1] <= comparator.n
      [] comparator.cmp = "GreaterThan" ->
            AsU64(value) # <<>> /\ AsU64(value)[1] > comparator.n
      [] comparator.cmp = "In" ->
            AsStr(value) # <<>> /\ AsStr(value)[1] \in comparator.vs
      [] comparator.cmp = "Between" ->
            /\ AsU64(value) # <<>>
            /\ AsU64(value)[1] >= comparator.start
            /\ AsU64(value)[1] <= comparator.end

FilterWithCompare(value, comparator) ==
    CASE comparator.cmp = "Equals" -> AsStr(value) = <<comparator.v>>
      [] comparator.cmp = "NotEquals" -> AsStr(value) # <<comparator.v>>
      [] comparator.cmp = "LessThan" ->
            AsU64(value) # <<>> /\ AsU64(value)[1] < comparator.n
      [] comparator.cmp = "GreaterThan" ->
            AsU64(value) # <<>> /\ AsU64(value)[1] > comparator.n
      [] comparator.cmp = "In" ->
            AsStr(value) # <<>> /\ AsStr(value)[1] \in comparator.vs
      [] comparator.cmp = "Between" ->
            /\ AsU64(value) # <<>>
            /\ AsU64(value)[1] >= comparator.start
            /\ AsU64(value)[1] <= comparator.end

(***************************************************************************)
(* Persistence: serde_json::to_string_pretty / serde_json::from_str        *)
(***************************************************************************)
EmptyFile == [kind |-> "empty"]

CorruptFile == [kind |-> "corrupt"]

JsonFile(arrays) == [kind |-> "json", tables |-> arrays]

ToStringPrettyNonEmpty(store) ==
    JsonFile([t \in {u \in DOMAIN store : store[u] # {}} |->
                SetToBag(store[t])])

\* a HashSet serialises as an array holding each element once
ToStringPretty(store) ==
    JsonFile([t \in DOMAIN store |-> SetToBag(store[t])])

FromStrOrDefault(content) ==
    IF content.kind = "json"
    THEN [ok |-> TRUE,
          v |-> [t \in DOMAIN content.tables |-> BagToSet(content.tables[t])]]
    ELSE [ok |-> TRUE, v |-> [t \in {} |-> {}]]

\* an array deserialises into a HashSet: repeated elements collapse
FromStr(content) ==
    IF content.kind = "json"
    THEN [ok |-> TRUE,
          v |-> [t \in DOMAIN content.tables |-> BagToSet(content.tables[t])]]
    ELSE [ok |-> FALSE, err |-> "CorruptData"]

EmptyStore == [t \in {} |-> {}]

\* HashMap::insert(table_name, HashSet::new()) and friends
WithTable(store, table, docs) ==
    [t \in DOMAIN store \cup {table} |-> IF t = table THEN docs ELSE store[t]]

(***************************************************************************)
(* Iteration over a HashSet with a closure that may panic                  *)
(***************************************************************************)
\* Iterator::find : the outcomes over all visiting orders; probe[t] is
\* what the closure does on element t ("match", "nomatch" or "panic")
FindOutcomes(probe) ==
    (IF \E t \in DOMAIN probe : probe[t] = "match" THEN {"found"} ELSE {})
    \cup (IF \E t \in DOMAIN probe : probe[t] = "panic" THEN {"panic"} ELSE {})
    \cup (IF \A t \in DOMAIN probe : probe[t] = "nomatch" THEN {"none"} ELSE {})

\* HashSet::retain(|t| probe[t] is not a match): an element is erased as
\* soon as the closure returns false for it, so a panic leaves the elements
\* visited so far erased
Retain(probe) ==
    IF \E t \in DOMAIN probe : probe[t] = "panic"
    THEN {[panic |-> TRUE, set |-> DOMAIN probe \ E] :
            E \in SUBSET {t \in DOMAIN probe : probe[t] = "match"}}
    ELSE {[panic |-> FALSE, set |-> {t \in DOMAIN probe : probe[t] # "match"}]}

\* the closure `get_nested_value(t, "id").unwrap().as_str().unwrap()
\*              == new_item_id.as_str().unwrap()`
SameIdProbe(t, new_item_id) ==
    LET current_id == GetNestedValue(t, IdPath) IN
    IF ~current_id.ok THEN "panic"
    ELSE IF AsStr(current_id.v) = <<>> THEN "panic"
    ELSE IF AsStr(new_item_id) = <<>> THEN "panic"
    ELSE IF AsStr(current_id.v) = AsStr(new_item_id) THEN "match"
    ELSE "nomatch"

\* the closure of the Delete loop: both ids are resolved before either is
\* converted with as_str
DeleteProbe(t, r) ==
    LET t_id == GetNestedValue(t, IdPath)
        r_id == GetNestedValue(r, IdPath) IN
    IF ~t_id.ok THEN "panic"
    ELSE IF ~r_id.ok THEN "panic"
    ELSE IF AsStr(t_id.v) = <<>> THEN "panic"
    ELSE IF AsStr(r_id.v) = <<>> THEN "panic"
    ELSE IF AsStr(t_id.v) = AsStr(r_id.v) THEN "match"
    ELSE "nomatch"

(***************************************************************************)
(* json_db.rs: get_table_vec, insert_into_table                            *)
(***************************************************************************)
\* get_table_vec(..).unwrap_or_default()
GetTableVecOrDefault(store, table) ==
    IF table \in DOMAIN store THEN store[table] ELSE {}

\* What applying the pending action leaves behind: the outcome, the store,
\* and whether Arc::make_mut(&mut self.value) ran.
Applied(outcome, store, mut) ==
    [outcome |-> outcome, value |-> store, mut |-> mut]

InsertIntoTableNoIdCheck(store, table_name, new_item, or) ==
    IF ~or /\ table_name \notin DOMAIN store
    THEN {Applied("TableNotFound", store, TRUE)}
    ELSE IF new_item \in GetTableVecOrDefault(store, table_name)
    THEN {Applied("RecordAlreadyExists", store, TRUE)}
    ELSE {Applied("Ok",
                  WithTable(store, table_name,
                            GetTableVecOrDefault(store, table_name)
                              \cup {new_item}),
                  TRUE)}

InsertIntoTable(store, table_name, new_item, or) ==
    LET new_item_id == GetNestedValue(new_item, IdPath) IN
    IF ~new_item_id.ok
    THEN {Applied("Panic", store, FALSE)}
    ELSE IF ~or /\ table_name \notin DOMAIN store
    THEN {Applied("TableNotFound", store, TRUE)}
    ELSE
      LET store1 == IF table_name \in DOMAIN store THEN store
                    ELSE WithTable(store, table_name, {})
          table == store1[table_name]
          probe == [t \in table |-> SameIdProbe(t, new_item_id.v)]
      IN
      IF new_item \in table
      THEN \* the message is formatted with new_item_id.as_str().unwrap()
           IF AsStr(new_item_id.v) = <<>>
           THEN {Applied("Panic", store1, TRUE)}
           ELSE {Applied("RecordAlreadyExists", store1, TRUE)}
      ELSE
        {Applied(IF f = "found" THEN "RecordAlreadyExists"
                 ELSE IF f = "panic" THEN "Panic" ELSE "Ok",
                 IF f = "none"
                 THEN WithTable(store1, table_name, table \cup {new_item})
                 ELSE store1,
                 TRUE) :
           f \in FindOutcomes(probe)}

(***************************************************************************)
(* json_db.rs: run, the arms of `Done`                                     *)
(***************************************************************************)
\* what `run` hands back for one way the Done arm can go
Ran(outcome, store, result, mut) ==
    [outcome |-> outcome, value |-> store, result |-> result, mut |-> mut]

CreateAtDone(store, table, new_item, or, result) ==
    {Ran(a.outcome, a.value, result, a.mut) :
        a \in InsertIntoTable(store, table, new_item, or)}

ReadAtDoneNarrowing(store, table, result) ==
    {Ran("Ok", WithTable(store, table, result), result, TRUE)}

ReadAtDone(store, table, result) ==
    {Ran("Ok", store, result, FALSE)}

UpdateAtDone(store, table, new_item, result) ==
    LET new_item_id == GetNestedValue(new_item, IdPath) IN
    IF ~new_item_id.ok
    THEN {Ran("Panic", store, result, FALSE)}
    ELSE
      LET Probe(S) == [t \in S |-> SameIdProbe(t, new_item_id.v)]
          \* ok_or(..) builds its error eagerly, with
          \* new_item_id.as_str().unwrap() inside format!
          Searched(f) ==
              IF f = "panic" \/ AsStr(new_item_id.v) = <<>>
              THEN {Ran("Panic", store, result, FALSE)}
              ELSE IF f = "none"
              THEN {Ran("RecordNotFound", store, result, FALSE)}
              ELSE IF table \notin DOMAIN store
              THEN {Ran("TableNotFound", store, result, TRUE)}
              ELSE {IF kept.panic
                    THEN Ran("Panic", WithTable(store, table, kept.set),
                             result, TRUE)
                    ELSE Ran("Ok",
                             WithTable(store, table, kept.set \cup {new_item}),
                             {new_item}, TRUE) :
                      kept \in Retain(Probe(store[table]))}
      IN UNION {Searched(f) : f \in FindOutcomes(Probe(result))}

\* `for r in result.iter() { table_hash.retain(..) }`, r in any order
RECURSIVE DeleteLoop(_, _)
DeleteLoop(table_hash, result) ==
    IF result = {}
    THEN {[panic |-> FALSE, set |-> table_hash]}
    ELSE UNION {
           UNION {IF kept.panic THEN {kept}
                  ELSE DeleteLoop(kept.set, result \ {r}) :
                    kept \in Retain([t \in table_hash |-> DeleteProbe(t, r)])} :
           r \in result}

DeleteAtDone(store, table, result) ==
    IF table \notin DOMAIN store
    THEN {Ran("TableNotFound", store, result, TRUE)}
    ELSE {Ran(IF kept.panic THEN "Panic" ELSE "Ok",
              WithTable(store, table, kept.set), result, TRUE) :
            kept \in DeleteLoop(store[table], result)}

AtDone(store, method, result) ==
    CASE method.m = "Read" -> ReadAtDone(store, method.table, result)
      [] method.m = "Create" ->
            CreateAtDone(store, method.table, method.item, method.or, result)
      [] method.m = "Update" ->
            UpdateAtDone(store, method.table, method.item, result)
      [] method.m = "Delete" -> DeleteAtDone(store, method.table, result)
      [] OTHER -> {Ran("Ok", store, result, FALSE)}

(***************************************************************************)
(* json_db.rs: run, the drain loop up to `Done`                            *)
(***************************************************************************)
\* the Compare arm: every element is passed to the closure, which unwraps
\* the resolved path
CompareArmSkipping(result, key_chain, comparator) ==
    [panic |-> FALSE,
     result |-> {t \in result :
                   /\ GetNestedValue(t, key_chain).ok
                   /\ FilterWithCompare(GetNestedValue(t, key_chain).v,
                                        comparator)}]

CompareArmAtId(result, key_chain, comparator) ==
    IF \E t \in result : ~GetNestedValue(t, IdPath).ok
    THEN [panic |-> TRUE, result |-> result]
    ELSE [panic |-> FALSE,
          result |-> {t \in result :
                        FilterWithCompare(GetNestedValue(t, IdPath).v,
                                          comparator)}]

CompareArm(result, key_chain, comparator) ==
    IF \E t \in result : ~GetNestedValue(t, key_chain).ok
    THEN [panic |-> TRUE, result |-> result]
    ELSE [panic |-> FALSE,
          result |-> {t \in result :
                        FilterWithCompare(GetNestedValue(t, key_chain).v,
                                          comparator)}]

RECURSIVE DrainFirstMethod(_, _, _, _, _, _)
DrainFirstMethod(store, runners, result, key_chain, method, seen) ==
    IF runners = <<>>
    THEN [at |-> "empty", runners |-> runners, result |-> result,
          method |-> method, seen |-> seen]
    ELSE
      LET runner == Head(runners)
          rest == Tail(runners)
          seen1 == Append(seen, runner)
      IN
      CASE runner.r = "Method" ->
             IF method = NoMethod
             THEN DrainFirstMethod(store, rest,
                                   GetTableVecOrDefault(store, runner.name.table),
                                   key_chain, runner.name, seen1)
             ELSE DrainFirstMethod(store, rest, result, key_chain, method,
                                   seen1)
        [] runner.r = "Where" ->
             DrainFirstMethod(store, rest, result, runner.f, method, seen1)
        [] runner.r = "Compare" ->
             LET c == CompareArm(result, key_chain, runner.comparator) IN
             IF c.panic
             THEN [at |-> "panic", runners |-> rest, result |-> result,
                   method |-> method, seen |-> seen1]
             ELSE DrainFirstMethod(store, rest, c.result, key_chain, method, seen1)
        [] runner.r = "Done" ->
             [at |-> "done", runners |-> rest, result |-> result,
              method |-> method, seen |-> seen1]

\* Pops runners until Done is popped, a closure panics or the queue is
\* empty; `seen` collects the popped runners.
RECURSIVE Drain(_, _, _, _, _, _)
Drain(store, runners, result, key_chain, method, seen) ==
    IF runners = <<>>
    THEN [at |-> "empty", runners |-> runners, result |-> result,
          method |-> method, seen |-> seen]
    ELSE
      LET runner == Head(runners)
          rest == Tail(runners)
          seen1 == Append(seen, runner)
      IN
      CASE runner.r = "Method" ->
             Drain(store, rest, GetTableVecOrDefault(store, runner.name.table),
                   key_chain, runner.name, seen1)
        [] runner.r = "Where" ->
             Drain(store, rest, result, runner.f, method, seen1)
        [] runner.r = "Compare" ->
             LET c == CompareArm(result, key_chain, runner.comparator) IN
             IF c.panic
             THEN [at |-> "panic", runners |-> rest, result |-> result,
                   method |-> method, seen |-> seen1]
             ELSE Drain(store, rest, c.result, key_chain, method, seen1)
        [] runner.r = "Done" ->
             [at |-> "done", runners |-> rest, result |-> result,
              method |-> method, seen |-> seen1]

(***************************************************************************)
(* State                                                                   *)
(***************************************************************************)
Handles == {1, 2}

VARIABLES
    file,      \* what the database file holds
    opened,    \* opened[h]: handle h exists (JsonDB::new returned Ok)
    value,     \* value[h]: the field `value` of handle h
    runners,   \* runners[h]: the field `runners` of handle h
    shareV,    \* the two handles' `value` is one Arc allocation
    shareR,    \* the two handles' `runners` is one Arc allocation
    saving,    \* saving[h]: where handle h stands inside `save`
    last       \* history: the call that led to this state

vars == <<file, opened, value, runners, shareV, shareR, saving, last>>

\* arrays of at most MaxDocs documents, order ignored
Arrays(docs) ==
    UNION {{b \in [S -> 1..MaxDocs] : BagCardinality(b) <= MaxDocs} :
             S \in {X \in SUBSET docs : Cardinality(X) <= MaxDocs}}

\* The file a handle is first opened on is written by anyone: "users" holds
\* any array over FileDocs, "todos" any array over OtherDocs.
InitFiles ==
    {EmptyFile, CorruptFile}
    \cup UNION {{JsonFile(f) :
                   f \in {g \in [ts -> Arrays(FileDocs)] :
                            "todos" \in ts => BagToSet(g["todos"]) \subseteq OtherDocs}} :
                  ts \in SUBSET TableNames}

Called(op, h, outcome, result, seen, method, filtered) ==
    [op |-> op, h |-> h, outcome |-> outcome, result |-> result,
     seen |-> seen, method |-> method, filtered |-> filtered,
     preValue |-> value, preFile |-> file, preRunners |-> runners,
     preShareV |-> shareV]

Init ==
    /\ file \in InitFiles
    /\ opened = [h \in Handles |-> FALSE]
    /\ value = [h \in Handles |-> EmptyStore]
    /\ runners = [h \in Handles |-> <<>>]
    /\ shareV = FALSE
    /\ shareR = FALSE
    /\ saving = [h \in Handles |-> <<>>]
    /\ last = [op |-> "init", h |-> 0, outcome |-> "Ok", result |-> {},
               seen |-> <<>>, method |-> NoMethod, filtered |-> {},
               preValue |-> [h \in Handles |-> EmptyStore],
               preFile |-> file,
               preRunners |-> [h \in Handles |-> <<>>],
               preShareV |-> FALSE]

(***************************************************************************)
(* Arc::make_mut: the caller gets a private allocation unless it is the    *)
(* only owner; the other owner keeps the old content                       *)
(***************************************************************************)
MakeMutInPlace(arc, shared, h, x) ==
    [g \in Handles |-> IF g = h \/ shared THEN x ELSE arc[g]]

MakeMut(arc, shared, h, x) ==
    [g \in Handles |-> IF g = h THEN x ELSE arc[g]]

\* json_db.rs: save
Save(store) == ToStringPretty(store)

(***************************************************************************)
(* json_db.rs: JsonDB::new, Clone, add_table                               *)
(***************************************************************************)
new(h) ==
    LET parsed == IF file = EmptyFile THEN [ok |-> TRUE, v |-> EmptyStore]
                  ELSE FromStr(file)
    IN
    /\ IF parsed.ok
       THEN /\ opened' = [opened EXCEPT ![h] = TRUE]
            /\ value' = [value EXCEPT ![h] = parsed.v]
            /\ runners' = [runners EXCEPT ![h] = <<>>]
            /\ shareV' = FALSE
            /\ shareR' = FALSE
       ELSE UNCHANGED <<opened, value, runners, shareV, shareR>>
    /\ last' = Called("new", h, IF parsed.ok THEN "Ok" ELSE parsed.err,
                      {}, <<>>, NoMethod, {})
    /\ UNCHANGED <<file, saving>>

clone(h, g) ==
    /\ opened[h]
    /\ g # h
    /\ opened' = [opened EXCEPT ![g] = TRUE]
    /\ value' = [value EXCEPT ![g] = value[h]]
    /\ runners' = [runners EXCEPT ![g] = runners[h]]
    /\ shareV' = TRUE
    /\ shareR' = TRUE
    /\ last' = Called("clone", h, "Ok", {}, <<>>, NoMethod, {})
    /\ UNCHANGED <<file, saving>>

add_table(h, table_name) ==
    /\ opened[h]
    /\ LET tables_hash == IF table_name \in DOMAIN value[h] THEN value[h]
                          ELSE WithTable(value[h], table_name, {})
       IN /\ value' = MakeMut(value, shareV, h, tables_hash)
          /\ file' = Save(tables_hash)
    /\ shareV' = FALSE
    /\ last' = Called("add_table", h, "Ok", {}, <<>>, NoMethod, {})
    /\ UNCHANGED <<opened, runners, shareR, saving>>

(***************************************************************************)
(* json_db.rs: get_db_tables                                               *)
(***************************************************************************)
GetDbTablesOfStore(h) == DOMAIN value[h]

\* the file at self.path is read again; content that does not parse
\* (the empty file included) gives the default, an empty map
GetDbTables(h) ==
    LET tables_hash == FromStr(file) IN
    IF tables_hash.ok THEN DOMAIN tables_hash.v ELSE {}

get_db_tables(h) ==
    /\ opened[h]
    /\ last' = Called("get_db_tables", h, "Ok", GetDbTables(h), <<>>,
                      NoMethod, {})
    /\ UNCHANGED <<file, opened, value, runners, shareV, shareR, saving>>

(***************************************************************************)
(* json_db.rs: the builder calls                                           *)
(***************************************************************************)
\* Arc::make_mut(&mut self.runners).push_back(runner), while the queue holds
\* fewer than `cap` runners
push_back_upto(cap, h, runner) ==
    /\ opened[h]
    /\ Len(runners[h]) < cap
    /\ runners' = MakeMut(runners, shareR, h, Append(runners[h], runner))
    /\ shareR' = FALSE
    /\ last' = Called("push", h, "Ok", {}, <<>>, NoMethod, {})
    /\ UNCHANGED <<file, opened, value, shareV, saving>>

push_back(h, runner) == push_back_upto(MaxQueue, h, runner)

insert(h, table, item) == push_back(h, Method(Create(table, item, FALSE)))

insert_or(h, table, item) == push_back(h, Method(Create(table, item, TRUE)))

find(h, table) == push_back(h, Method(Read(table)))

update(h, table, item) == push_back(h, Method(Update(table, item)))

delete(h, table) == push_back(h, Method(Delete(table)))

where_(h, field) == push_back(h, Where(field))

equals(h, v) == push_back(h, Compare(Equals(v)))

not_equals(h, v) == push_back(h, Compare(NotEquals(v)))

in_(h, values) == push_back(h, Compare(In(values)))

less_than(h, n) == push_back(h, Compare(LessThan(n)))

greater_than(h, n) == push_back(h, Compare(GreaterThan(n)))

between(h, start, end) == push_back(h, Compare(Between(start, end)))

(***************************************************************************)
(* json_db.rs: run                                                         *)
(***************************************************************************)
\* the Done arm ends in `self.save().await?` unless `?` or `return Err`
\* left `run` before
FileAfterNoSaveOnRead(method, outcome, store, content) ==
    IF outcome = "Ok" /\ method.m # "Read" THEN Save(store) ELSE content

FileAfter(method, outcome, store, content) ==
    IF outcome = "Ok" THEN Save(store) ELSE content

WithinBounds(store) ==
    \A t \in DOMAIN store : Cardinality(store[t]) <= MaxDocs

run(h) ==
    /\ opened[h]
    /\ LET d == Drain(value[h], Append(runners[h], Done), {}, EmptyPath,
                      NoMethod, <<>>)
       IN
       /\ runners' = MakeMut(runners, shareR, h, d.runners)
       /\ shareR' = FALSE
       /\ IF d.at = "done"
          THEN \E o \in AtDone(value[h], d.method, d.result) :
                 /\ WithinBounds(o.value)
                 /\ value' = IF o.mut THEN MakeMut(value, shareV, h, o.value)
                             ELSE value
                 /\ shareV' = IF o.mut THEN FALSE ELSE shareV
                 /\ file' = FileAfter(d.method, o.outcome, o.value, file)
                 /\ last' = Called("run", h, o.outcome, o.result, d.seen,
                                   d.method, d.result)
          ELSE /\ UNCHANGED <<value, shareV, file>>
               /\ last' = Called("run", h,
                                 IF d.at = "panic" THEN "Panic" ELSE "Ok",
                                 d.result, d.seen, d.method, d.result)
    /\ UNCHANGED <<opened, saving>>

(***************************************************************************)
(* json_db.rs: save, step by step.  `json` is built first, then the file   *)
(* is opened with truncate(true), then write_all writes `json` through     *)
(* that descriptor, from offset 0.  saving[h] is <<>> outside save,         *)
(* <<"open", json>> before the open and <<"write", json>> before the write. *)
(***************************************************************************)
\* text a is at least as long as text b: it holds every table and every
\* array element that b holds
Covers(a, b) ==
    /\ a.kind = "json"
    /\ b.kind = "json"
    /\ DOMAIN b.tables \subseteq DOMAIN a.tables
    /\ \A t \in DOMAIN b.tables : b.tables[t] \sqsubseteq a.tables[t]

WriteAllReplacing(content, json) == {json}

\* What the file holds after `json` is written from offset 0 over
\* `content`: `json` when `content` is not longer, `json` followed by the
\* rest of `content`, which no longer parses, when `content` is longer.
\* The model orders text lengths by Covers only; where that does not
\* decide, both results are kept.
WriteAll(content, json) ==
    IF content = EmptyFile \/ Covers(json, content) THEN {json}
    ELSE IF Covers(content, json) THEN {CorruptFile}
    ELSE {json, CorruptFile}

Idle(h) == saving[h] = <<>>

\* add_table up to the first await of save
add_table_begin(h, table_name) ==
    /\ opened[h]
    /\ Idle(h)
    /\ LET tables_hash == IF table_name \in DOMAIN value[h] THEN value[h]
                          ELSE WithTable(value[h], table_name, {})
       IN /\ value' = MakeMut(value, shareV, h, tables_hash)
          /\ saving' = [saving EXCEPT ![h] = <<"open", Save(tables_hash)>>]
    /\ shareV' = FALSE
    /\ last' = Called("add_table_begin", h, "Ok", {}, <<>>, NoMethod, {})
    /\ UNCHANGED <<file, opened, runners, shareR>>

\* run up to the first await of save (to its end when it does not save)
run_begin(h) ==
    /\ opened[h]
    /\ Idle(h)
    /\ LET d == Drain(value[h], Append(runners[h], Done), {}, EmptyPath,
                      NoMethod, <<>>)
       IN
       /\ runners' = MakeMut(runners, shareR, h, d.runners)
       /\ shareR' = FALSE
       /\ IF d.at = "done"
          THEN \E o \in AtDone(value[h], d.method, d.result) :
                 /\ WithinBounds(o.value)
                 /\ value' = IF o.mut THEN MakeMut(value, shareV, h, o.value)
                             ELSE value
                 /\ shareV' = IF o.mut THEN FALSE ELSE shareV
                 /\ saving' = IF o.outcome = "Ok"
                               THEN [saving EXCEPT ![h] = <<"open", Save(o.value)>>]
                               ELSE saving
                 /\ last' = Called("run_begin", h, o.outcome, o.result, d.seen,
                                   d.method, d.result)
          ELSE /\ UNCHANGED <<value, shareV, saving>>
               /\ last' = Called("run_begin", h,
                                 IF d.at = "panic" THEN "Panic" ELSE "Ok",
                                 d.result, d.seen, d.method, d.result)
    /\ UNCHANGED <<file, opened>>

\* OpenOptions::new().write(true).truncate(true).open(&self.path)
save_open(h) ==
    /\ ~Idle(h)
    /\ saving[h][1] = "open"
    /\ file' = EmptyFile
    /\ saving' = [saving EXCEPT ![h] = <<"write", saving[h][2]>>]
    /\ last' = Called("save_open", h, "Ok", {}, <<>>, NoMethod, {})
    /\ UNCHANGED <<opened, value, runners, shareV, shareR>>

\* file.write_all(json.as_bytes()), flush, and the return of save
save_write(h) ==
    /\ ~Idle(h)
    /\ saving[h][1] = "write"
    /\ file' \in WriteAll(file, saving[h][2])
    /\ saving' = [saving EXCEPT ![h] = <<>>]
    /\ last' = Called("save_write", h, "Ok", {}, <<>>, NoMethod, {})
    /\ UNCHANGED <<opened, value, runners, shareV, shareR>>

(***************************************************************************)
(* utils.rs: get_nested_value called on a document of the store with a     *)
(* dotted path.  The call is recorded in `last`: the path in `seen`, the   *)
(* document in `filtered`, the value returned in `result`.                 *)
(***************************************************************************)
get_nested_value(h, data, key_chain) ==
    LET r == GetNestedValue(data, SplitOnDot(key_chain)) IN
    /\ opened[h]
    /\ \E t \in DOMAIN value[h] : data \in value[h][t]
    /\ last' = Called("get_nested_value", h, IF r.ok THEN "Ok" ELSE r.err,
                      IF r.ok THEN {r.v} ELSE {}, key_chain, NoMethod, {data})
    /\ UNCHANGED <<file, opened, value, runners, shareV, shareR, saving>>

(***************************************************************************)
(* Specifications                                                          *)
(***************************************************************************)
\* One handle, every operation, one argument choice for each builder call.
Next ==
    \/ new(1)
    \/ \E t \in TableNames : add_table(1, t)
    \/ \E t \in ArgTables : insert(1, t, Doc1John)
    \/ \E t \in ArgTables : insert_or(1, t, DocNum7)
    \/ \E t \in ArgTables : find(1, t)
    \/ \E t \in ArgTables : update(1, t, Doc1John)
    \/ \E t \in ArgTables : delete(1, t)
    \/ where_(1, NamePath)
    \/ \E v \in ArgStrings : equals(1, v)
    \/ run(1)

Spec == Init /\ [][Next]_vars

\* The same calls on a file that is empty, unreadable, or holds a "users"
\* array over SaveDocs (an array may repeat a document).
SaveDocs == {Doc1Jane, Doc2Jane}

SaveFiles ==
    {EmptyFile, CorruptFile}
    \cup {JsonFile([t \in {"users"} |-> b]) : b \in Arrays(SaveDocs)}

InitSave ==
    /\ Init
    /\ file \in SaveFiles

SpecSave == InitSave /\ [][Next]_vars

\* One handle, the Create calls with every argument document.
NextCreate ==
    \/ new(1)
    \/ \E t \in TableNames : add_table(1, t)
    \/ \E t \in ArgTables, d \in ArgDocs : insert(1, t, d)
    \/ \E t \in ArgTables, d \in ArgDocs : insert_or(1, t, d)
    \/ run(1)

SpecCreate == Init /\ [][NextCreate]_vars

\* One handle, Read chains with every filter.
NextFind ==
    \/ new(1)
    \/ \E t \in TableNames : add_table(1, t)
    \/ \E t \in ArgTables : find(1, t)
    \/ \E f \in ArgPaths : where_(1, f)
    \/ \E v \in ArgStrings : equals(1, v)
    \/ \E v \in ArgStrings : not_equals(1, v)
    \/ run(1)

SpecFind == Init /\ [][NextFind]_vars

\* the numbers the caller passes to less_than / greater_than / between:
\* a lower and an upper one around the numeric id of DocNum7
ArgBounds == <<6, 8>>

\* One handle, Read chains with each of the six predicates.
NextCompare ==
    \/ new(1)
    \/ \E t \in ArgTables : find(1, t)
    \/ \E f \in ArgPaths : where_(1, f)
    \/ \E v \in ArgStrings : equals(1, v)
    \/ \E v \in ArgStrings : not_equals(1, v)
    \/ in_(1, ArgStrings)
    \/ less_than(1, ArgBounds[2])
    \/ greater_than(1, ArgBounds[1])
    \/ between(1, ArgBounds[1], ArgBounds[2])
    \/ run(1)

SpecCompare == Init /\ [][NextCompare]_vars

\* One handle, chains of every action with a filter, on a file whose
\* "users" array is over FilterDocs: one of them has no `id`, one a number.
FilterDocs == {Doc1Jane, DocNum7, DocNoId}

FilterFiles ==
    {EmptyFile}
    \cup {JsonFile([t \in {"users"} |-> b]) : b \in Arrays(FilterDocs)}

InitFilter ==
    /\ Init
    /\ file \in FilterFiles

NextFilter ==
    \/ new(1)
    \/ \E t \in ArgTables : insert(1, t, Doc1John)
    \/ \E t \in ArgTables : find(1, t)
    \/ \E t \in ArgTables : update(1, t, Doc1John)
    \/ \E t \in ArgTables : delete(1, t)
    \/ \E f \in ArgPaths : where_(1, f)
    \/ \E v \in ArgStrings : equals(1, v)
    \/ run(1)

SpecFilter == InitFilter /\ [][NextFilter]_vars

\* One handle, Update and Delete chains with every argument document.
NextChange ==
    \/ new(1)
    \/ \E t \in TableNames : add_table(1, t)
    \/ \E t \in ArgTables, d \in ArgDocs : update(1, t, d)
    \/ \E t \in ArgTables : delete(1, t)
    \/ \E f \in ArgPaths : where_(1, f)
    \/ \E v \in ArgStrings : equals(1, v)
    \/ run(1)

SpecChange == Init /\ [][NextChange]_vars

\* Two handles on one file that holds a "users" table: each is opened or
\* cloned from the other, and each builds and runs chains.
TwoFiles ==
    {JsonFile([t \in {"users"} |-> SetToBag({Doc1Jane})])}

InitTwo ==
    /\ Init
    /\ file \in TwoFiles

\* the two queues together stay within MaxQueue
QueuedInAll == Len(runners[1]) + Len(runners[2])

NextTwo ==
    \/ \E h \in Handles : new(h)
    \/ \E h, g \in Handles :
          QueuedInAll - Len(runners[g]) + Len(runners[h]) <= MaxQueue
          /\ clone(h, g)
    \/ \E h \in Handles, t \in TableNames : add_table(h, t)
    \/ \E h \in Handles :
          QueuedInAll < MaxQueue /\ insert_or(h, "users", Doc1Jane)
    \/ \E h \in Handles :
          QueuedInAll < MaxQueue /\ update(h, "users", Doc1John)
    \/ \E h \in Handles :
          QueuedInAll < MaxQueue /\ delete(h, "users")
    \/ \E h \in Handles : run(h)

SpecTwo == InitTwo /\ [][NextTwo]_vars

\* Two handles on one file, empty or holding a "users" table: each handle
\* is opened, adds tables, creates a document, and lists the tables.
TablesFiles == {EmptyFile} \cup TwoFiles

InitTables ==
    /\ Init
    /\ file \in TablesFiles

NextTables ==
    \/ \E h \in Handles : new(h)
    \/ \E h \in Handles, t \in TableNames : add_table(h, t)
    \/ \E h \in Handles :
          QueuedInAll < MaxQueue /\ insert_or(h, "users", DocNum7)
    \/ \E h \in Handles : run(h)
    \/ \E h \in Handles : get_db_tables(h)

SpecTables == InitTables /\ [][NextTables]_vars

\* One handle on a file holding an empty "users" table, and the calls of
\* the insert / insert / update / find / delete scenario in any order.
ScenarioFiles == {JsonFile([t \in {"users"} |-> EmptyBag])}

ScenarioStrings == {"Janet", "Nobody"}

InitScenario ==
    /\ Init
    /\ file \in ScenarioFiles

NextScenario ==
    \/ new(1)
    \/ \E d \in {Doc1Jane, Doc1John} : insert(1, "users", d)
    \/ update(1, "users", Doc1Janet)
    \/ find(1, "users")
    \/ delete(1, "users")
    \/ where_(1, NamePath)
    \/ \E v \in ScenarioStrings : equals(1, v)
    \/ run(1)

SpecScenario == InitScenario /\ [][NextScenario]_vars

\* Read chains of up to MaxChain builder calls: find opens a chain, then
\* where_ and the string comparisons in any order.
ChainDocs == {Doc1Jane, Doc1John, Doc2Jane, DocNoId}

ChainFiles == {JsonFile(f) : f \in [{"users"} -> Arrays(ChainDocs)]}

InitChain ==
    /\ Init
    /\ file \in ChainFiles

NextChain ==
    \/ new(1)
    \/ \E t \in ArgTables :
         runners[1] = <<>> /\ push_back_upto(MaxChain, 1, Method(Read(t)))
    \/ \E f \in ArgPaths :
         runners[1] # <<>> /\ push_back_upto(MaxChain, 1, Where(f))
    \/ \E v \in ArgStrings :
         runners[1] # <<>> /\ push_back_upto(MaxChain, 1, Compare(Equals(v)))
    \/ \E v \in ArgStrings :
         runners[1] # <<>> /\ push_back_upto(MaxChain, 1, Compare(NotEquals(v)))
    \/ run(1)

SpecChain == InitChain /\ [][NextChain]_vars

\* The numeric comparisons on the `id` field of documents whose id is an
\* unsigned integer, every bound taken from the range of the ids.
NumDoc(x) == Obj([id |-> Num(x), name |-> Str("John")])

NumericRange == ArgBounds[1]..ArgBounds[2]

NumericFiles ==
    {JsonFile(f) : f \in [{"users"} -> Arrays({NumDoc(x) : x \in NumericRange})]}

InitNumeric ==
    /\ file \in NumericFiles
    /\ opened = [h \in Handles |-> FALSE]
    /\ value = [h \in Handles |-> EmptyStore]
    /\ runners = [h \in Handles |-> <<>>]
    /\ shareV = FALSE
    /\ shareR = FALSE
    /\ saving = [h \in Handles |-> <<>>]
    /\ last = [op |-> "init", h |-> 0, outcome |-> "Ok", result |-> {},
               seen |-> <<>>, method |-> NoMethod, filtered |-> {},
               preValue |-> [h \in Handles |-> EmptyStore],
               preFile |-> file,
               preRunners |-> [h \in Handles |-> <<>>],
               preShareV |-> FALSE]

NextNumeric ==
    \/ new(1)
    \/ \E t \in ArgTables : runners[1] = <<>> /\ find(1, t)
    \/ Len(runners[1]) = Len(IdPath) /\ where_(1, IdPath)
    \/ \E n \in NumericRange : Len(runners[1]) > Len(IdPath) /\ less_than(1, n)
    \/ \E n \in NumericRange :
         Len(runners[1]) > Len(IdPath) /\ greater_than(1, n)
    \/ \E start, end \in NumericRange :
         Len(runners[1]) > Len(IdPath) /\ between(1, start, end)
    \/ run(1)

SpecNumeric == InitNumeric /\ [][NextNumeric]_vars

\* Two handles opened on one file, each in a task of its own: a call of a
\* handle runs to its next await, and the two saves advance in any order.
NextRace ==
    \E h \in Handles :
      \/ ~opened[h] /\ new(h)
      \/ \E t \in TableNames : add_table_begin(h, t)
      \/ Idle(h) /\ QueuedInAll < MaxQueue /\ insert(h, "users", Doc2Jane)
      \/ Idle(h) /\ QueuedInAll < MaxQueue /\ find(h, "users")
      \/ run_begin(h)
      \/ save_open(h)
      \/ save_write(h)

SpecRace == InitTables /\ [][NextRace]_vars

\* The path resolver on the documents of a store, one of them with a
\* nested object.  Each path is given with the parts it splits into.
DocNested == Obj([id |-> Str("3"), name |-> Obj([first |-> Str("Jane")])])

ResolveDocs == {Doc1Jane, DocNoId, DocNested}

ResolvePaths ==
    {<<<<>>, <<"">>>>,
     <<<<"id">>, <<"id">>>>,
     <<<<"name">>, <<"name">>>>,
     <<<<"age">>, <<"age">>>>,
     <<<<"name", ".">>, <<"name", "">>>>,
     <<<<".", "name">>, <<"", "name">>>>,
     <<<<"name", ".", "first">>, <<"name", "first">>>>,
     <<<<"name", ".", "last">>, <<"name", "last">>>>,
     <<<<"id", ".", "first">>, <<"id", "first">>>>,
     <<<<"age", ".", "first">>, <<"age", "first">>>>,
     <<<<"name", ".", "first", ".", "id">>, <<"name", "first", "id">>>>}

ResolveFiles == {JsonFile(f) : f \in [{"users"} -> Arrays(ResolveDocs)]}

InitResolve ==
    /\ file \in ResolveFiles
    /\ opened = [h \in Handles |-> FALSE]
    /\ value = [h \in Handles |-> EmptyStore]
    /\ runners = [h \in Handles |-> <<>>]
    /\ shareV = FALSE
    /\ shareR = FALSE
    /\ saving = [h \in Handles |-> <<>>]
    /\ last = [op |-> "init", h |-> 0, outcome |-> "Ok", result |-> {},
               seen |-> <<>>, method |-> NoMethod, filtered |-> {},
               preValue |-> [h \in Handles |-> EmptyStore],
               preFile |-> file,
               preRunners |-> [h \in Handles |-> <<>>],
               preShareV |-> FALSE]

NextResolve ==
    \/ new(1)
    \/ \E data \in ResolveDocs, p \in ResolvePaths :
         get_nested_value(1, data, p[1])

SpecResolve == InitResolve /\ [][NextResolve]_vars

(***************************************************************************)
(* Vocabulary of the properties                                            *)
(***************************************************************************)
\* the documents of table t in a store (none when the table is absent)
DocsOf(store, t) == IF t \in DOMAIN store THEN store[t] ELSE {}

\* both documents have an `id` field and the two fields are equal
SameId(d, e) ==
    /\ GetNestedValue(d, IdPath).ok
    /\ GetNestedValue(e, IdPath).ok
    /\ GetNestedValue(d, IdPath).v = GetNestedValue(e, IdPath).v

\* the value of document d at path p is the string v
HasStringAt(d, p, v) == GetNestedValue(d, p) = [ok |-> TRUE, v |-> Str(v)]

\* the last call was a run of handle h that processed its Done sentinel
\* with pending action of kind m
RanToDone(m) ==
    /\ last.op = "run"
    /\ last.seen # <<>>
    /\ last.seen[Len(last.seen)] = Done
    /\ last.method.m = m

\* the last call was a run on a queue holding exactly `chain`
RanChain(chain) ==
    /\ last.op = "run"
    /\ last.preRunners[last.h] = chain

Unchanged(h) == value[h] = last.preValue[h] /\ file = last.preFile

OtherTablesKept(h, t) ==
    /\ DOMAIN value[h] \ {t} = DOMAIN last.preValue[h] \ {t}
    /\ \A u \in DOMAIN value[h] \ {t} : value[h][u] = last.preValue[h][u]

C2_DuplicateRejected ==
    (/\ RanToDone("Create")
     /\ \E d \in DocsOf(last.preValue[last.h], last.method.table) :
            d = last.method.item \/ SameId(d, last.method.item))
    => /\ last.outcome = "RecordAlreadyExists"
       /\ Unchanged(last.h)

(***************************************************************************)
(* C3: an Update run succeeds iff a document of the filtered working       *)
(* result has the `id` of the new document; on success the table holds the *)
(* new document, no other document with that `id`, every document with a   *)
(* different `id` as before, and the result is [newDoc].                   *)
(***************************************************************************)
C3_UpdateIdentity ==
    RanToDone("Update") =>
      LET h == last.h
          t == last.method.table
          newDoc == last.method.item
          before == DocsOf(last.preValue[h], t)
          after == DocsOf(value[h], t)
      IN /\ last.outcome = "Ok" <=> \E d \in last.filtered : SameId(d, newDoc)
         /\ last.outcome = "Ok" =>
              /\ newDoc \in after
              /\ \A d \in after : d # newDoc => ~SameId(d, newDoc)
              /\ {d \in after : ~SameId(d, newDoc)}
                   = {d \in before : ~SameId(d, newDoc)}
              /\ last.result = {newDoc}

(***************************************************************************)
(* C4: an Update run whose new document carries an `id` that no document   *)
(* of the filtered working result has returns RecordNotFound, does not     *)
(* save, and leaves the store as it was.                                   *)
(***************************************************************************)
C4_UpdateNotFound ==
    (/\ RanToDone("Update")
     /\ GetNestedValue(last.method.item, IdPath).ok
     /\ ~\E d \in last.filtered : SameId(d, last.method.item))
    => /\ last.outcome = "RecordNotFound"
       /\ Unchanged(last.h)

(***************************************************************************)
(* C5: a successful delete(T).where(p).equals(v).run() removes from T      *)
(* exactly the documents whose value at p is v and keeps every other       *)
(* document and table; a successful delete(T).run() leaves T empty.        *)
(***************************************************************************)
C5_DeleteScope ==
    \A t \in ArgTables :
      /\ \A p \in ArgPaths, v \in ArgStrings :
           (/\ RanChain(<<Method(Delete(t)), Where(p), Compare(Equals(v))>>)
            /\ last.outcome = "Ok")
           => /\ DocsOf(value[last.h], t)
                   = {d \in DocsOf(last.preValue[last.h], t) :
                        ~HasStringAt(d, p, v)}
              /\ OtherTablesKept(last.h, t)
      /\ (RanChain(<<Method(Delete(t))>>) /\ last.outcome = "Ok")
           => /\ DocsOf(value[last.h], t) = {}
              /\ OtherTablesKept(last.h, t)

(***************************************************************************)
(* C6 as stated: find(T).where(p).equals(v).run() returns exactly the      *)
(* documents of T whose value at p is the string v, and find(T).run()      *)
(* returns all documents of T.                                             *)
(***************************************************************************)
C6_FindExact ==
    \A t \in ArgTables :
      /\ \A p \in ArgPaths, v \in ArgStrings :
           RanChain(<<Method(Read(t)), Where(p), Compare(Equals(v))>>)
           => /\ last.outcome = "Ok"
              /\ last.result = {d \in DocsOf(last.preValue[last.h], t) :
                                  HasStringAt(d, p, v)}
      /\ RanChain(<<Method(Read(t))>>)
           => /\ last.outcome = "Ok"
              /\ last.result = DocsOf(last.preValue[last.h], t)

(***************************************************************************)
(* C6 amended: when p resolves in every document of T, the run returns     *)
(* exactly the documents of T whose value at p is the string v; when p     *)
(* does not resolve in some document of T, the run aborts, returns nothing *)
(* and leaves the store and the file as they were; find(T).run() returns   *)
(* all documents of T.                                                     *)
(***************************************************************************)
C6_FindExactOrAbort ==
    \A t \in ArgTables :
      /\ \A p \in ArgPaths, v \in ArgStrings :
           RanChain(<<Method(Read(t)), Where(p), Compare(Equals(v))>>)
           => LET T == DocsOf(last.preValue[last.h], t) IN
              IF \A d \in T : GetNestedValue(d, p).ok
              THEN /\ last.outcome = "Ok"
                   /\ last.result = {d \in T : HasStringAt(d, p, v)}
              ELSE /\ last.outcome = "Panic"
                   /\ Unchanged(last.h)
      /\ RanChain(<<Method(Read(t))>>)
           => /\ last.outcome = "Ok"
              /\ last.result = DocsOf(last.preValue[last.h], t)

\* a filtered find that keeps one document of the table and drops another
C6_Witness ==
    /\ RanChain(<<Method(Read("users")), Where(NamePath),
                  Compare(Equals("Jane"))>>)
    /\ last.outcome = "Ok"
    /\ last.result # {}
    /\ last.result # DocsOf(last.preValue[last.h], "users")

C8_QueueEmptyOnReturn ==
    (last.op = "run" /\ last.outcome # "Panic") => runners[last.h] = <<>>

(***************************************************************************)
(* C10: a Create run without the create-if-missing flag, and a Delete run, *)
(* on a table absent from the store fail with TableNotFound and leave the  *)
(* store and the file as they were.                                        *)
(***************************************************************************)
C10_TableNotFound ==
    (/\ \/ RanToDone("Create") /\ ~last.method.or
        \/ RanToDone("Delete")
     /\ last.method.table \notin DOMAIN last.preValue[last.h])
    => /\ last.outcome = "TableNotFound"
       /\ Unchanged(last.h)

(***************************************************************************)
(* C9: a mutating call (add_table, or a run that applies Create, Update or *)
(* Delete) on one handle never changes the store held by the other handle, *)
(* whether that handle is a clone or was opened on the same file.          *)
(***************************************************************************)
C9_SiblingStoreKept ==
    last.op \in {"add_table", "run"} =>
      \A g \in Handles \ {last.h} : value[g] = last.preValue[g]

\* a run changed the store of a handle whose Arc was shared with its clone
C9_Witness ==
    /\ last.op = "run"
    /\ last.outcome = "Ok"
    /\ last.preShareV
    /\ value[last.h] # last.preValue[last.h]
    /\ \A g \in Handles : opened[g]

(***************************************************************************)
(* C11: a run whose pending action (Read, Update, Delete, or Create        *)
(* without the create-if-missing flag) names a table absent from the       *)
(* handle's store returns TableNotFound.                                   *)
(***************************************************************************)
C11_AbsentTableIsError ==
    (/\ \/ RanToDone("Read")
        \/ RanToDone("Update")
        \/ RanToDone("Delete")
        \/ RanToDone("Create") /\ ~last.method.or
     /\ last.method.table \notin DOMAIN last.preValue[last.h])
    => last.outcome = "TableNotFound"

(***************************************************************************)
(* C12: in a Read chain find(T).where(p).<predicate>, a document whose     *)
(* value at p resolves but is not of the shape the predicate is defined    *)
(* over (a string for Equals, NotEquals and In; an unsigned integer for    *)
(* LessThan, GreaterThan and Between) is left out of the result, and when  *)
(* p resolves in every document of T the run raises no error.              *)
(***************************************************************************)
C12_MismatchExcluded ==
    LET chain == last.preRunners[last.h] IN
    (/\ last.op = "run"
     /\ Len(chain) = 3
     /\ chain[1].r = "Method" /\ chain[1].name.m = "Read"
     /\ chain[2].r = "Where"
     /\ chain[3].r = "Compare")
    => LET docs == DocsOf(last.preValue[last.h], chain[1].name.table)
           c == chain[3].comparator
           shape == IF c.cmp \in {"Equals", "NotEquals", "In"}
                    THEN "String" ELSE "Number"
           at(d) == GetNestedValue(d, chain[2].f)
       IN (\A d \in docs : at(d).ok)
          => /\ last.outcome = "Ok"
             /\ \A d \in docs : at(d).v.type # shape => d \notin last.result

\* the queue the last run started on is a pending action, then only Where
\* calls, then a Compare at position k: that Compare sees the whole table
FirstCompareAt(chain, k) ==
    /\ k \in 2..Len(chain)
    /\ chain[1].r = "Method"
    /\ \A j \in 2..(k - 1) : chain[j].r = "Where"
    /\ chain[k].r = "Compare"

\* the path that is active when the runner at position k is reached
ActivePath(chain, k) == IF k = 2 THEN EmptyPath ELSE chain[k - 1].f

(***************************************************************************)
(* C13: when a Compare is evaluated on a working result holding a document *)
(* in which the active path does not resolve, the run aborts: it returns   *)
(* neither a result nor an error, and the store and the file stay as they  *)
(* were before the run.                                                    *)
(***************************************************************************)
C13_UnresolvedPathAborts ==
    LET chain == last.preRunners[last.h] IN
    last.op = "run" =>
      \A k \in 1..Len(chain) :
        (/\ FirstCompareAt(chain, k)
         /\ \E d \in DocsOf(last.preValue[last.h], chain[1].name.table) :
               ~GetNestedValue(d, ActivePath(chain, k)).ok)
        => /\ last.outcome = "Panic"
           /\ Unchanged(last.h)

\* a filter on `id` met a stored document without `id`
C13_Witness ==
    LET chain == last.preRunners[last.h] IN
    /\ last.op = "run"
    /\ last.outcome = "Panic"
    /\ FirstCompareAt(chain, 3)
    /\ chain[2].f = IdPath
    /\ DocNoId \in DocsOf(last.preValue[last.h], chain[1].name.table)
    /\ Doc1Jane \in DocsOf(last.preValue[last.h], chain[1].name.table)

(***************************************************************************)
(* C14: a Create or Update run whose document has no resolvable `id`, and  *)
(* a Create run that has to inspect a stored document without resolvable   *)
(* `id` (the new document is not in the table and no stored document       *)
(* shares its `id`), returns PathNotFound or NotAnObject as an error and    *)
(* leaves the store and the file as they were.                             *)
(***************************************************************************)
C14_IdFailureIsError ==
    LET chain == last.preRunners[last.h] IN
    (/\ last.op = "run"
     /\ Len(chain) = 1
     /\ chain[1].r = "Method"
     /\ chain[1].name.m \in {"Create", "Update"}
     /\ LET item == chain[1].name.item
            stored == DocsOf(last.preValue[last.h], chain[1].name.table)
        IN \/ ~GetNestedValue(item, IdPath).ok
           \/ /\ chain[1].name.m = "Create"
              /\ item \notin stored
              /\ \A d \in stored : ~SameId(d, item)
              /\ \E d \in stored : ~GetNestedValue(d, IdPath).ok)
    => /\ last.outcome \in {"PathNotFound", "NotAnObject"}
       /\ Unchanged(last.h)

(***************************************************************************)
(* C15: add_table on a name that is already a table of the handle's store  *)
(* changes neither the store nor the file; on a new name it adds an empty  *)
(* table and keeps every other table as it was.                            *)
(***************************************************************************)
C15_AddTableNoOp ==
    last.op = "add_table" =>
      LET h == last.h
          added == DOMAIN value[h] \ DOMAIN last.preValue[h]
      IN IF added = {}
         THEN Unchanged(h)
         ELSE /\ Cardinality(added) = 1
              /\ \A t \in added : value[h][t] = {} /\ OtherTablesKept(h, t)

(***************************************************************************)
(* C16: get_db_tables on any handle returns exactly the table names of the *)
(* current content of the file (none when the file is empty), whatever the *)
(* handle's own store holds, and changes neither a store nor the file.     *)
(***************************************************************************)
C16_ListsTablesOfFile ==
    last.op = "get_db_tables" =>
      /\ last.result = IF file.kind = "json" THEN DOMAIN file.tables ELSE {}
      /\ value = last.preValue
      /\ file = last.preFile

\* the file holds a table, saved by the other handle, that the calling
\* handle's store does not hold
C16_Witness ==
    /\ last.op = "get_db_tables"
    /\ "todos" \in last.result
    /\ "todos" \notin DOMAIN value[last.h]

\* the last call saved the calling handle's store to the file
Saved ==
    \/ last.op = "add_table"
    \/ last.op = "run" /\ last.outcome = "Ok"

ScenarioStep(chain, docs) ==
    /\ RanChain(chain)
    /\ "users" \in DOMAIN last.preValue[last.h]
    /\ last.preValue[last.h]["users"] = docs

FindJanet ==
    <<Method(Read("users")), Where(NamePath), Compare(Equals("Janet"))>>

DeleteNobody ==
    <<Method(Delete("users")), Where(NamePath), Compare(Equals("Nobody"))>>

(***************************************************************************)
(* C18: the scenario, step by step, each step started in the state the     *)
(* step before it leaves.  On the empty table insert Jane succeeds and the *)
(* table has one entry; then insert John (same id) fails with              *)
(* RecordAlreadyExists; then update Janet succeeds and the table holds     *)
(* exactly Janet; then find.where(name).equals(Janet) returns exactly      *)
(* Janet; then delete.where(name).equals(Nobody) succeeds, returns nothing *)
(* and leaves the table as it was.                                         *)
(***************************************************************************)
C18_Scenario ==
    /\ ScenarioStep(<<Method(Create("users", Doc1Jane, FALSE))>>, {})
       => /\ last.outcome = "Ok"
          /\ value[last.h]["users"] = {Doc1Jane}
    /\ ScenarioStep(<<Method(Create("users", Doc1John, FALSE))>>, {Doc1Jane})
       => /\ last.outcome = "RecordAlreadyExists"
          /\ value[last.h]["users"] = {Doc1Jane}
    /\ ScenarioStep(<<Method(Update("users", Doc1Janet))>>, {Doc1Jane})
       => /\ last.outcome = "Ok"
          /\ value[last.h]["users"] = {Doc1Janet}
    /\ ScenarioStep(FindJanet, {Doc1Janet})
       => /\ last.outcome = "Ok"
          /\ last.result = {Doc1Janet}
          /\ value[last.h]["users"] = {Doc1Janet}
    /\ ScenarioStep(DeleteNobody, {Doc1Janet})
       => /\ last.outcome = "Ok"
          /\ last.result = {}
          /\ value[last.h]["users"] = {Doc1Janet}

\* the last step of the scenario has run on the table the update left
C18_Witness ==
    /\ ScenarioStep(DeleteNobody, {Doc1Janet})
    /\ last.outcome = "Ok"
    /\ file = Save(value[last.h])

(***************************************************************************)
(* C19: JsonDB::new never changes the file; on an empty file it yields a   *)
(* handle whose store has no tables; on content that is not a map from     *)
(* table names to arrays of documents it fails with CorruptData and yields *)
(* no handle.                                                              *)
(***************************************************************************)
C19_Open ==
    last.op = "new" =>
      /\ file = last.preFile
      /\ last.preFile = EmptyFile =>
           /\ last.outcome = "Ok"
           /\ opened[last.h]
           /\ value[last.h] = EmptyStore
      /\ last.preFile = CorruptFile =>
           /\ last.outcome = "CorruptData"
           /\ ~opened[last.h]

\* an open on unreadable content was refused
C19_Witness ==
    /\ last.op = "new"
    /\ last.preFile = CorruptFile
    /\ last.outcome = "CorruptData"
    /\ \A h \in Handles : ~opened[h]

(***************************************************************************)
(* C20: a Create run with the create-if-missing flag on a table absent     *)
(* from the store succeeds; afterwards the table holds exactly the new     *)
(* document, every other table is as before, and the file is the           *)
(* serialization of the new store.                                         *)
(***************************************************************************)
C20_CreateIfMissing ==
    LET chain == last.preRunners[last.h] IN
    (/\ last.op = "run"
     /\ Len(chain) = 1
     /\ chain[1].r = "Method"
     /\ chain[1].name.m = "Create"
     /\ chain[1].name.or
     /\ chain[1].name.table \notin DOMAIN last.preValue[last.h])
    => LET t == chain[1].name.table IN
       /\ last.outcome = "Ok"
       /\ t \in DOMAIN value[last.h]
       /\ DocsOf(value[last.h], t) = {chain[1].name.item}
       /\ OtherTablesKept(last.h, t)
       /\ file = Save(value[last.h])

(***************************************************************************)
(* C21: a run whose pending action is Read leaves the in-memory store of   *)
(* every handle as it was before the run (same tables, same documents in   *)
(* each table), whether it returns or aborts, and what it returns is the   *)
(* working result left by the filters, all of it taken from the table.     *)
(***************************************************************************)
C21_ReadKeepsStore ==
    (last.op = "run" /\ last.method.m = "Read") =>
        /\ value = last.preValue
        /\ last.outcome \in {"Ok", "Panic"}
        /\ last.outcome = "Ok" =>
             /\ last.result = last.filtered
             /\ last.result \subseteq
                  DocsOf(last.preValue[last.h], last.method.table)

\* a Read run whose filter dropped one document and kept another
C21_Witness ==
    /\ last.op = "run"
    /\ last.method.m = "Read"
    /\ last.outcome = "Ok"
    /\ last.result # {}
    /\ last.result # DocsOf(value[last.h], last.method.table)
    /\ value = last.preValue

\* the path a Compare at position k of a chain filters by: the argument of
\* the last Where before it, the empty path when there is none
PathInForce(chain, k) ==
    LET W == {j \in 1..(k - 1) : chain[j].r = "Where"} IN
    IF W = {} THEN EmptyPath
    ELSE chain[CHOOSE j \in W : \A i \in W : i <= j].f

\* document d passes the Compare at position k of the chain
Passes(d, chain, k) ==
    /\ GetNestedValue(d, PathInForce(chain, k)).ok
    /\ FilterWithCompare(GetNestedValue(d, PathInForce(chain, k)).v,
                         chain[k].comparator)

Compares(chain) == {k \in DOMAIN chain : chain[k].r = "Compare"}

\* a find followed by where_ and comparison calls only
ReadChain(chain) ==
    /\ chain # <<>>
    /\ chain[1].r = "Method"
    /\ chain[1].name.m = "Read"
    /\ \A k \in 2..Len(chain) : chain[k].r \in {"Where", "Compare"}

(***************************************************************************)
(* C22: in a run of find followed by where_ and comparison calls, a Where  *)
(* only sets the path in force (it drops no document) and that path is     *)
(* used by every later Compare until the next Where; each Compare keeps    *)
(* the documents of the working result that pass it, so a run that returns *)
(* yields exactly the documents of the table that pass every Compare of    *)
(* the chain (a subset of the table), and a run aborts only when a         *)
(* document that passed the earlier Compares has no value at the path in   *)
(* force at a later one.                                                   *)
(***************************************************************************)
C22_ChainOfFilters ==
    LET chain == last.preRunners[last.h]
        docs == DocsOf(last.preValue[last.h], chain[1].name.table)
    IN
    (last.op = "run" /\ ReadChain(chain)) =>
        /\ last.outcome = "Ok" =>
             last.result =
               {d \in docs : \A k \in Compares(chain) : Passes(d, chain, k)}
        /\ last.outcome # "Ok" =>
             \E k \in Compares(chain) : \E d \in docs :
               /\ \A j \in Compares(chain) : j < k => Passes(d, chain, j)
               /\ ~GetNestedValue(d, PathInForce(chain, k)).ok

\* find, where_, a comparison, where_ with another path, a comparison: the
\* run kept one document and dropped another
C22_Witness ==
    LET chain == last.preRunners[last.h] IN
    /\ last.op = "run"
    /\ last.outcome = "Ok"
    /\ ReadChain(chain)
    /\ \E j, k \in Compares(chain) :
         /\ j < k
         /\ PathInForce(chain, j) # PathInForce(chain, k)
         /\ PathInForce(chain, j) # EmptyPath
    /\ last.result # {}
    /\ last.result # DocsOf(last.preValue[last.h], chain[1].name.table)

(***************************************************************************)
(* C23: a run that returns has processed every operation that was queued   *)
(* when it was called, in the order of the builder calls, and the Done     *)
(* sentinel after all of them and only once: the pending action is applied *)
(* after every queued Where and Compare.                                   *)
(***************************************************************************)
C23_FifoDoneLast ==
    (last.op = "run" /\ last.outcome # "Panic") =>
        /\ last.seen = Append(last.preRunners[last.h], Done)
        /\ \A k \in 1..(Len(last.seen) - 1) : last.seen[k] # Done

(***************************************************************************)
(* C24: what a successful Delete run returns is exactly what it removed:   *)
(* the documents the table held before the run and no longer holds after   *)
(* it.                                                                     *)
(***************************************************************************)
C24_DeleteReturnsRemoved ==
    (RanToDone("Delete") /\ last.outcome = "Ok") =>
        last.result =
          DocsOf(last.preValue[last.h], last.method.table)
            \ DocsOf(value[last.h], last.method.table)

(***************************************************************************)
(* C25: on a table whose documents carry an unsigned integer x in `id`,    *)
(* find.where_("id") followed by less_than(n) returns the documents with   *)
(* x < n, by greater_than(n) those with x > n (x = n is dropped by both),  *)
(* and by between(lo, hi) those with lo <= x <= hi, both bounds included,  *)
(* which is no document when lo > hi.                                      *)
(***************************************************************************)
C25_NumericComparisons ==
    LET docs == DocsOf(last.preValue[last.h], "users")
        X(d) == d.fields["id"].n
        Chain(c) == <<Method(Read("users")), Where(IdPath), Compare(c)>>
        Returned(keep(_)) ==
            /\ last.outcome = "Ok"
            /\ last.result = {d \in docs : keep(d)}
    IN
    /\ \A n \in NumericRange :
         /\ RanChain(Chain(LessThan(n))) =>
              LET keep(d) == X(d) < n IN
              Returned(keep) /\ NumDoc(n) \notin last.result
         /\ RanChain(Chain(GreaterThan(n))) =>
              LET keep(d) == X(d) > n IN
              Returned(keep) /\ NumDoc(n) \notin last.result
    /\ \A lo, hi \in NumericRange :
         RanChain(Chain(Between(lo, hi))) =>
           LET keep(d) == lo <= X(d) /\ X(d) <= hi IN
           /\ Returned(keep)
           /\ lo > hi => last.result = {}
           /\ lo <= hi =>
                {NumDoc(lo), NumDoc(hi)} \cap docs \subseteq last.result

\* less_than(n) on a table holding x = n and a smaller x: one dropped, one
\* kept
C25_Witness ==
    \E n \in NumericRange :
      /\ RanChain(<<Method(Read("users")), Where(IdPath), Compare(LessThan(n))>>)
      /\ NumDoc(n) \in DocsOf(last.preValue[last.h], "users")
      /\ last.outcome = "Ok"
      /\ last.result # {}
      /\ NumDoc(n) \notin last.result

(***************************************************************************)
(* C26: after any run, returned or aborted, the handle's store is the      *)
(* store before the run or the store with the pending action applied in    *)
(* full (what a successful application to the store before the run         *)
(* gives); a Delete never ends with only some of its targets removed.      *)
(***************************************************************************)
C26_AllOrNothing ==
    last.op = "run" =>
        \/ value[last.h] = last.preValue[last.h]
        \/ \E o \in AtDone(last.preValue[last.h], last.method, last.filtered) :
             /\ o.outcome = "Ok"
             /\ value[last.h] = o.value

\* the documents a file content holds in table t
FileDocsOf(content, t) ==
    IF content.kind = "json" /\ t \in DOMAIN content.tables
    THEN BagToSet(content.tables[t])
    ELSE {}

(***************************************************************************)
(* C27: nothing orders the saves of two handles on one file.  A handle     *)
(* inside save writes the serialization of its own store; when its write   *)
(* finds the file as its open truncated it, the file becomes that          *)
(* serialization, so every document only the other handle holds, created   *)
(* and saved earlier or not, is absent from it; when the other handle      *)
(* wrote a longer text between this handle's open and its write, the file  *)
(* is this handle's text followed by the rest of the other's, the          *)
(* serialization of neither store.                                         *)
(***************************************************************************)
C27_SavesOverwrite ==
    /\ \A g \in Handles : ~Idle(g) => saving[g][2] = Save(value[g])
    /\ last.op = "save_write" =>
         LET json == Save(value[last.h]) IN
         /\ file \in {json, CorruptFile}
         /\ last.preFile = EmptyFile => file = json
         /\ (Covers(last.preFile, json) /\ last.preFile # json) =>
              file = CorruptFile
         /\ file = json =>
              \A g \in Handles, t \in TableNames :
                FileDocsOf(file, t) \cap DocsOf(value[g], t)
                  \subseteq DocsOf(value[last.h], t)

\* both handles are open and out of save, handle 1 holds a document it
\* created, and the file is the serialization of neither store
C27_Witness ==
    /\ last.op = "save_write"
    /\ \A g \in Handles : opened[g] /\ Idle(g)
    /\ Doc2Jane \in DocsOf(value[1], "users")
    /\ \A g \in Handles : file # Save(value[g])

\* handle 2 has just saved, and a document that handle 1 created and saved
\* is no longer in the file
LostDocument ==
    /\ last.op = "save_write"
    /\ last.h = 2
    /\ file = Save(value[2])
    /\ \A g \in Handles : opened[g] /\ Idle(g)
    /\ Doc2Jane \in DocsOf(value[1], "users")
    /\ Doc2Jane \notin FileDocsOf(file, "users")

\* the parts the dotted path `key_chain` splits into
PartsOf(key_chain) ==
    (CHOOSE p \in ResolvePaths : p[1] = key_chain)[2]

\* descending `parts` from `data`, one part per step, from the first part
Walk(data, parts) ==
    LET W[k \in 0..Len(parts)] ==
          IF k = 0 THEN [ok |-> TRUE, v |-> data]
          ELSE IF ~W[k - 1].ok THEN W[k - 1]
          ELSE IF W[k - 1].v.type # "Object"
          THEN [ok |-> FALSE, err |-> "NotAnObject"]
          ELSE IF parts[k] \notin DOMAIN W[k - 1].v.fields
          THEN [ok |-> FALSE, err |-> "PathNotFound"]
          ELSE [ok |-> TRUE, v |-> W[k - 1].v.fields[parts[k]]]
    IN W[Len(parts)]

(***************************************************************************)
(* C28: get_nested_value on a document and a dotted path descends the      *)
(* parts of the path split on ".", one per step: it returns the value at   *)
(* the end of the path, fails with PathNotFound at the first part absent   *)
(* from the object reached, and with NotAnObject at the first part to be   *)
(* looked up in a value that is not an object; the document in the store   *)
(* is not modified.                                                        *)
(***************************************************************************)
C28_PathResolver ==
    last.op = "get_nested_value" =>
        \E data \in last.filtered :
          LET w == Walk(data, PartsOf(last.seen)) IN
          /\ last.outcome = IF w.ok THEN "Ok" ELSE w.err
          /\ last.result = IF w.ok THEN {w.v} ELSE {}
          /\ value = last.preValue
          /\ data \in DocsOf(value[last.h], "users")

\* a path of two parts resolved inside the nested object
C28_Witness ==
    /\ last.op = "get_nested_value"
    /\ last.seen = <<"name", ".", "first">>
    /\ last.outcome = "Ok"
    /\ last.result = {Str("Jane")}

\* the positions of the Method operations of a chain, and the last of them
Methods(chain) == {k \in DOMAIN chain : chain[k].r = "Method"}

LastMethodAt(chain) ==
    CHOOSE k \in Methods(chain) : \A j \in Methods(chain) : j <= k

(***************************************************************************)
(* C29: when the queue of a run holds several Method operations, the       *)
(* pending action at Done is the last of them; its working result is       *)
(* seeded from its own table and filtered by the Compares after it only;   *)
(* and nothing of the earlier Create, Update or Delete operations shows in *)
(* the store: a last Read leaves the store as it was, a last Create or     *)
(* Update adds at most its own document, a last Create removes nothing,    *)
(* a last Delete adds nothing.                                             *)
(***************************************************************************)
C29_LastMethodOnly ==
    LET chain == last.preRunners[last.h]
        k == LastMethodAt(chain)
        m == chain[k].name
        before == DocsOf(last.preValue[last.h], m.table)
        after == DocsOf(value[last.h], m.table)
    IN
    (/\ last.op = "run"
     /\ Cardinality(Methods(chain)) > 1
     /\ \A j \in DOMAIN chain : chain[j] # Done) =>
        /\ last.outcome # "Panic" =>
             /\ last.method = m
             /\ last.filtered =
                  {d \in before :
                     \A j \in Compares(chain) : j > k => Passes(d, chain, j)}
        /\ \A t \in TableNames \ {m.table} :
             DocsOf(value[last.h], t) = DocsOf(last.preValue[last.h], t)
        /\ m.m = "Read" => after = before
        /\ m.m = "Create" => before \subseteq after /\ after \subseteq before \cup {m.item}
        /\ m.m = "Update" => after \subseteq before \cup {m.item}
        /\ m.m = "Delete" => after \subseteq before

\* an insert and a delete followed by a find in one chain: the run returns
\* the whole table and the store is as before
C29_Witness ==
    LET chain == last.preRunners[last.h] IN
    /\ last.op = "run"
    /\ last.outcome = "Ok"
    /\ Len(chain) > 2
    /\ chain[Len(chain)] = Method(Read("users"))
    /\ \E j, k \in Methods(chain) :
         /\ chain[j].name.m = "Create"
         /\ chain[j].name.item \notin DocsOf(last.preValue[last.h], "users")
         /\ chain[k].name.m = "Delete"
    /\ last.result = DocsOf(last.preValue[last.h], "users")
    /\ last.result # {}
    /\ value = last.preValue

(***************************************************************************)
(* C30: a builder call appends to the handle's queue and nothing but run   *)
(* takes anything out of it (a handle freshly opened or cloned aside);     *)
(* a run that returns has drained every operation that was queued when it  *)
(* was called, leftovers of earlier chains first, in the order of the      *)
(* calls.                                                                  *)
(***************************************************************************)
C30_LeftoversDrained ==
    LET pre == last.preRunners[last.h] IN
    /\ last.op = "push" =>
         /\ Len(runners[last.h]) = Len(pre) + 1
         /\ SubSeq(runners[last.h], 1, Len(pre)) = pre
    /\ last.op \in {"add_table", "get_db_tables"} =>
         runners = last.preRunners
    /\ (last.op = "run" /\ last.outcome # "Panic") =>
         /\ Len(last.seen) >= Len(pre)
         /\ SubSeq(last.seen, 1, Len(pre)) = pre

(***************************************************************************)
(* C31: every document that a successful Create or Update run adds to its  *)
(* table has an `id` field holding a string; a document without `id` or    *)
(* with an `id` of another type is never added, an empty or just-created   *)
(* table included.                                                         *)
(***************************************************************************)
C31_StoredIdIsString ==
    (last.op = "run" /\ last.outcome = "Ok"
       /\ last.method.m \in {"Create", "Update"}) =>
        \A d \in DocsOf(value[last.h], last.method.table)
                   \ DocsOf(last.preValue[last.h], last.method.table) :
          /\ d.type = "Object"
          /\ "id" \in DOMAIN d.fields
          /\ d.fields["id"].type = "String"

====
